---- MODULE Spec2Model ----
(***************************************************************************)
(* Patch extraction (hansen_gfc_aoi.py, sentinel2_ndvi_aoi.py) and the     *)
(* tabular assembly (build_patch_csv_from_npz.py) of the deforestation     *)
(* dataset pipeline.                                                       *)
(*                                                                         *)
(* Rasters are represented by their shape <<height, width>>; a patch is    *)
(* the slice expression the code evaluates on them.  numpy's seeded        *)
(* Generator.shuffle is library code: it is a permutation that depends on  *)
(* the seed and on the length of the array only, and the model fixes it    *)
(* on first use (rngPerm) without assuming which permutation it is.        *)
(***************************************************************************)
EXTENDS Integers, Sequences, FiniteSets, TLC

VARIABLES
    cfg,        \* patch_size, stride, target_min, target_max of the extraction calls
    fs,         \* the patch directories: fs[dir] = [exists, files]
    rngPerm,    \* rngPerm[<<seed, n>>]: the permutation default_rng(seed).shuffle applies to n items
    runs,       \* the extraction runs so far, one record per call, oldest first
    main,       \* the run of an extraction script: its AOI loop and how it ended
    npz,        \* the feature container handed to extract_ndvi_means
    resolved,   \* what extract_ndvi_means returned for npz
    out,        \* the tables in data/processed/dataset_ml
    build       \* the run of build_patch_csv_from_npz.main

vars == <<cfg, fs, rngPerm, runs, main, npz, resolved, out, build>>

----------------------------------------------------------------------------
(* config_aoi.py *)

AOIS == <<"la_pampa", "tambopata", "madre_de_dios_corridor">>
PATCH_SIZE == 32
STRIDE == 16
TARGET_PATCHES_MIN == 15000
TARGET_PATCHES_MAX == 20000

----------------------------------------------------------------------------
(* Bounds of the model *)

MaxDim == 2         \* rasters are 1..MaxDim pixels high and wide
MaxPatch == 2       \* patch_size ranges over 1..MaxPatch
MaxStride == 2      \* stride ranges over 1..MaxStride
MaxTarget == 2      \* target_min and target_max range over 0..MaxTarget
MaxCoords == 4      \* longest coordinate list that is shuffled

Shapes == (1..MaxDim) \X (1..MaxDim)

Configs ==
    [patch_size : 1..MaxPatch, stride : 1..MaxStride,
     target_min : 0..MaxTarget, target_max : 0..MaxTarget]

Min(a, b) == IF a <= b THEN a ELSE b

SeqRange(s) == {s[i] : i \in DOMAIN s}

----------------------------------------------------------------------------
(* The file system *)

DirKinds == {"features", "labels", "hansen_patches", "s2_patches_ndvi"}

AoiNames == {AOIS[i] : i \in DOMAIN AOIS}

AllDirs == DirKinds \X AoiNames

NoDir == [exists |-> FALSE, files |-> <<>>]

\* out_dir.mkdir(parents=True, exist_ok=True)
Mkdir(f, dir) ==
    [f EXCEPT ![dir] = [exists |-> TRUE, files |-> f[dir].files]]

\* np.savez_compressed(out_path, ...): creates the file or replaces it
Savez(files, name, artifact) ==
    [n \in (DOMAIN files) \cup {name} |-> IF n = name THEN artifact ELSE files[n]]

----------------------------------------------------------------------------
(* Patch identifiers: f"patch_{total_patches:06d}" *)

IdWidth == 6

RECURSIVE Digits(_)
Digits(n) == IF n < 10 THEN <<n>> ELSE Append(Digits(n \div 10), n % 10)

ZeroPad(ds, width) ==
    IF Len(ds) >= width THEN ds
    ELSE [i \in 1..(width - Len(ds)) |-> 0] \o ds

\* total_patches incremented before the identifier is formatted
PatchIdFromOne(total_patches) == ZeroPad(Digits(total_patches + 1), IdWidth)

\* the digits of the identifier; "patch_" and ".npz" are the same for every file
PatchId(total_patches) == ZeroPad(Digits(total_patches), IdWidth)

----------------------------------------------------------------------------
(* Coordinates *)

\* range(0, stop, step) for step >= 1
PyRange(stop, step) ==
    [i \in 1..(IF stop <= 0 THEN 0 ELSE (stop + step - 1) \div step) |-> (i - 1) * step]

\* the nested loops over row and col, row outermost
NestedCoords(rows, cols) ==
    [k \in 1..(Len(rows) * Len(cols)) |->
        <<rows[((k - 1) \div Len(cols)) + 1], cols[((k - 1) % Len(cols)) + 1]>>]

\* range(0, height - patch_size, stride): the last row and column of patches lost
HansenGridShort(height, width, patch_size, stride) ==
    NestedCoords(PyRange(height - patch_size, stride),
                 PyRange(width - patch_size, stride))

\* hansen_gfc_aoi.py: coords before the shuffle
HansenGrid(height, width, patch_size, stride) ==
    NestedCoords(PyRange(height - patch_size + 1, stride),
                 PyRange(width - patch_size + 1, stride))

\* the loops nested the other way round: col outermost
NdviGridColMajor(height, width, patch_size, stride) ==
    LET t == NestedCoords(PyRange(width - patch_size + 1, stride),
                          PyRange(height - patch_size + 1, stride))
    IN  [k \in DOMAIN t |-> <<t[k][2], t[k][1]>>]

\* sentinel2_ndvi_aoi.py: coords before the shuffle
NdviGrid(height, width, patch_size, stride) ==
    NestedCoords(PyRange(height - patch_size + 1, stride),
                 PyRange(width - patch_size + 1, stride))

HansenSeed == 42
NdviSeed == 42

Perms(n) == {p \in [1..n -> 1..n] : \A i, j \in 1..n : p[i] = p[j] => i = j}

\* rng.shuffle(coords): rows of the array permuted along axis 0
Shuffle(coords, p) == [k \in 1..Len(coords) |-> coords[p[k]]]

\* the permutations the generator may apply given what it applied before
RngChoices(seed, n) ==
    IF <<seed, n>> \in DOMAIN rngPerm THEN {rngPerm[<<seed, n>>]} ELSE Perms(n)

RngRecord(seed, n, p) ==
    [k \in (DOMAIN rngPerm) \cup {<<seed, n>>} |->
        IF k = <<seed, n>> THEN p ELSE rngPerm[k]]

----------------------------------------------------------------------------
(* Patch artifacts *)

\* raster[row:row + patch_size, col:col + patch_size] of a raster of the given shape
Slice2D(raster, shape, row, col, patch_size) ==
    [of |-> raster, row0 |-> row, col0 |-> col,
     shape |-> <<Min(row + patch_size, shape[1]) - row,
                 Min(col + patch_size, shape[2]) - col>>]

\* stacked[:, row:row + patch_size, col:col + patch_size], stacked of shape (2, H, W)
Slice3D(raster, shape, row, col, patch_size) ==
    [of |-> raster, row0 |-> row, col0 |-> col,
     shape |-> <<2, Min(row + patch_size, shape[1]) - row,
                    Min(col + patch_size, shape[2]) - col>>]

HansenArtifact(shape, row, col, patch_size) ==
    [keys |-> <<"treecover", "loss", "row", "col", "patch_size">>,
     arrays |-> [treecover |-> Slice2D("treecover", shape, row, col, patch_size),
                 loss |-> Slice2D("loss", shape, row, col, patch_size)],
     row |-> row, col |-> col, patch_size |-> patch_size]

NdviArtifact(shape, row, col, patch_size) ==
    [keys |-> <<"ndvi", "row", "col", "patch_size", "years">>,
     arrays |-> [ndvi |-> Slice3D("stacked", shape, row, col, patch_size)],
     row |-> row, col |-> col, patch_size |-> patch_size]

----------------------------------------------------------------------------
(* generate_patches_from_hansen / generate_patches_from_ndvi_pair *)

\* only the heights compared
HansenHeightMismatch(tree, loss) == tree[1] # loss[1]

\* if tree.shape != loss.shape: raise ValueError
HansenShapeMismatch(tree, loss) == tree # loss

\* if ndvi18.shape != ndvi22.shape: raise ValueError
NdviShapeMismatch(ndvi18, ndvi22) == ndvi18 # ndvi22

\* > for >=: one patch too many
HansenBreakLate(total_patches, target_max) == total_patches > target_max

\* if total_patches >= target_max: break
HansenBreak(total_patches, target_max) == total_patches >= target_max

NdviBreak(total_patches, target_max) == total_patches >= target_max

\* the loop over the shuffled coords, from its i-th element on
RECURSIVE HansenLoop(_, _, _, _, _)
HansenLoop(coords, i, st, shape, c) ==
    IF i > Len(coords) THEN st
    ELSE IF HansenBreak(st.total_patches, c.target_max) THEN st
    ELSE LET row == coords[i][1]
             col == coords[i][2]
             patch_id == PatchId(st.total_patches)
         IN  HansenLoop(coords, i + 1,
                 [total_patches |-> st.total_patches + 1,
                  files |-> Savez(st.files, patch_id,
                                  HansenArtifact(shape, row, col, c.patch_size)),
                  emitted |-> Append(st.emitted,
                                     [id |-> patch_id, row |-> row, col |-> col])],
                 shape, c)

RECURSIVE NdviLoop(_, _, _, _, _)
NdviLoop(coords, i, st, shape, c) ==
    IF i > Len(coords) THEN st
    ELSE IF NdviBreak(st.total_patches, c.target_max) THEN st
    ELSE LET row == coords[i][1]
             col == coords[i][2]
             patch_id == PatchId(st.total_patches)
         IN  NdviLoop(coords, i + 1,
                 [total_patches |-> st.total_patches + 1,
                  files |-> Savez(st.files, patch_id,
                                  NdviArtifact(shape, row, col, c.patch_size)),
                  emitted |-> Append(st.emitted,
                                     [id |-> patch_id, row |-> row, col |-> col])],
                 shape, c)

\* <= for <: a run that reaches target_min exactly is warned about as well
AtOrBelowTargetMin(total_patches, target_min) == total_patches <= target_min

\* if total_patches < target_min: print("[WARN] Only ... patches generated")
BelowTargetMin(total_patches, target_min) == total_patches < target_min

\* the record of a call that raised at the shape check
RaisedRun(source, out_dir, a, b) ==
    [source |-> source, out_dir |-> out_dir, shapes |-> <<a, b>>,
     status |-> "ValueError", coordsGenerated |-> FALSE,
     grid |-> <<>>, coords |-> <<>>, emitted |-> <<>>,
     returned |-> FALSE, total_patches |-> 0, warned |-> FALSE]

\* the record of a call that returned total_patches
ReturnedRun(source, out_dir, a, b, grid, coords, st, c) ==
    [source |-> source, out_dir |-> out_dir, shapes |-> <<a, b>>,
     status |-> "returned", coordsGenerated |-> TRUE,
     grid |-> grid, coords |-> coords, emitted |-> st.emitted,
     returned |-> TRUE, total_patches |-> st.total_patches,
     warned |-> BelowTargetMin(st.total_patches, c.target_min)]

\* generate_patches_from_hansen(treecover_aoi_path, loss_binary_path, out_dir, ...)
\* on rasters of shapes tree and loss, with parameters c
HansenGenerate(out_dir, tree, loss, c) ==
    LET made == Mkdir(fs, out_dir) IN
    IF HansenShapeMismatch(tree, loss)
    THEN /\ fs' = made
         /\ runs' = Append(runs, RaisedRun("hansen", out_dir, tree, loss))
         /\ UNCHANGED rngPerm
    ELSE LET grid == HansenGrid(tree[1], tree[2], c.patch_size, c.stride) IN
         /\ Len(grid) <= MaxCoords
         /\ \E p \in RngChoices(HansenSeed, Len(grid)) :
              LET coords == Shuffle(grid, p)
                  st == HansenLoop(coords, 1,
                            [total_patches |-> 0, files |-> made[out_dir].files,
                             emitted |-> <<>>], tree, c)
              IN  /\ fs' = [made EXCEPT ![out_dir].files = st.files]
                  /\ rngPerm' = RngRecord(HansenSeed, Len(grid), p)
                  /\ runs' = Append(runs,
                        ReturnedRun("hansen", out_dir, tree, loss, grid, coords, st, c))

\* generate_patches_from_ndvi_pair(ndvi_2018_path, ndvi_2022_path, out_dir, ...)
NdviGenerate(out_dir, ndvi18, ndvi22, c) ==
    LET made == Mkdir(fs, out_dir) IN
    IF NdviShapeMismatch(ndvi18, ndvi22)
    THEN /\ fs' = made
         /\ runs' = Append(runs, RaisedRun("ndvi", out_dir, ndvi18, ndvi22))
         /\ UNCHANGED rngPerm
    ELSE LET grid == NdviGrid(ndvi18[1], ndvi18[2], c.patch_size, c.stride) IN
         /\ Len(grid) <= MaxCoords
         /\ \E p \in RngChoices(NdviSeed, Len(grid)) :
              LET coords == Shuffle(grid, p)
                  st == NdviLoop(coords, 1,
                            [total_patches |-> 0, files |-> made[out_dir].files,
                             emitted |-> <<>>], ndvi18, c)
              IN  /\ fs' = [made EXCEPT ![out_dir].files = st.files]
                  /\ rngPerm' = RngRecord(NdviSeed, Len(grid), p)
                  /\ runs' = Append(runs,
                        ReturnedRun("ndvi", out_dir, ndvi18, ndvi22, grid, coords, st, c))

----------------------------------------------------------------------------
(* Values of the variables a specification does not use *)

NoMain == [script |-> "none", arg |-> "none", queue |-> <<>>, done |-> <<>>,
           status |-> "idle"]

NoNpz == [keys |-> <<>>, arrays |-> <<>>, layout |-> "none"]

NotResolved == [done |-> FALSE]

NoFile == [exists |-> FALSE, header |-> <<>>, lines |-> <<>>]

NoTables == [per |-> [a \in AoiNames |-> NoFile], combined |-> NoFile, alias |-> NoFile]

NoBuild == [status |-> "idle", queue |-> <<>>, all_dfs |-> <<>>,
            rows |-> <<>>, warnings |-> {}, history |-> <<>>]

----------------------------------------------------------------------------
(* Extraction into the directories the table builder reads *)

FeatDir(aoi) == <<"features", aoi>>
LabDir(aoi) == <<"labels", aoi>>

ExtractAoi == AOIS[1]

InitExtract ==
    /\ cfg \in Configs
    /\ fs = [d \in AllDirs |-> NoDir]
    /\ rngPerm = <<>>
    /\ runs = <<>>
    /\ main = NoMain
    /\ npz = NoNpz
    /\ resolved = NotResolved
    /\ out = NoTables
    /\ build = NoBuild

\* one call on any two rasters
ExtractHansen ==
    /\ runs = <<>>
    /\ \E tree \in Shapes, loss \in Shapes :
          HansenGenerate(LabDir(ExtractAoi), tree, loss, cfg)
    /\ UNCHANGED <<cfg, main, npz, resolved, out, build>>

ExtractNdvi ==
    /\ runs = <<>>
    /\ \E ndvi18 \in Shapes, ndvi22 \in Shapes :
          NdviGenerate(FeatDir(ExtractAoi), ndvi18, ndvi22, cfg)
    /\ UNCHANGED <<cfg, main, npz, resolved, out, build>>

NextExtract == ExtractHansen \/ ExtractNdvi

SpecExtract == InitExtract /\ [][NextExtract]_vars

\* a first and a second call, each on two co-registered rasters
CallOrder == <<"first", "second">>

PairHansen ==
    /\ Len(runs) < Len(CallOrder)
    /\ \E shape \in Shapes :
          HansenGenerate(LabDir(ExtractAoi), shape, shape, cfg)
    /\ UNCHANGED <<cfg, main, npz, resolved, out, build>>

PairNdvi ==
    /\ Len(runs) < Len(CallOrder)
    /\ \E shape \in Shapes :
          NdviGenerate(FeatDir(ExtractAoi), shape, shape, cfg)
    /\ UNCHANGED <<cfg, main, npz, resolved, out, build>>

NextPair == PairHansen \/ PairNdvi

SpecPair == InitExtract /\ [][NextPair]_vars

----------------------------------------------------------------------------
(* hansen_gfc_aoi.main / sentinel2_ndvi_aoi.main and their run_for_aoi *)

\* the defaults of the extraction functions, from config_aoi.py
DefaultConfig ==
    [patch_size |-> PATCH_SIZE, stride |-> STRIDE,
     target_min |-> TARGET_PATCHES_MIN, target_max |-> TARGET_PATCHES_MAX]

\* the rasters the clipping and compositing steps may leave for an AOI
MainShapes == {PATCH_SIZE, PATCH_SIZE + STRIDE} \X {PATCH_SIZE, PATCH_SIZE + STRIDE}

\* the --aoi argument
MainArgs == {"all"} \cup AoiNames \cup {"elsewhere"}

\* if aoi == "all": for aoi_name in AOIS.keys(): ... else: run_for_aoi(aoi)
MainQueue(arg) == IF arg = "all" THEN AOIS ELSE <<arg>>

\* an exception leaves run_for_aoi and the for loop of main: the script ends
MainRaised(aoi) ==
    main' = [main EXCEPT !.done = Append(@, [aoi |-> aoi, outcome |-> "raised"]),
                         !.status = "ValueError"]

\* run_for_aoi returned; the loop goes on, main returns after the last AOI
MainReturned(aoi, outcome) ==
    main' = [main EXCEPT !.done = Append(@, [aoi |-> aoi, outcome |-> outcome]),
                         !.queue = Tail(@),
                         !.status = IF Len(main.queue) = 1 THEN "exited" ELSE "running"]

HansenMain ==
    /\ main.status = "idle"
    /\ \E arg \in MainArgs :
          main' = [script |-> "hansen", arg |-> arg, queue |-> MainQueue(arg),
                   done |-> <<>>, status |-> "running"]
    /\ UNCHANGED <<cfg, fs, rngPerm, runs, npz, resolved, out, build>>

\* hansen_gfc_aoi.run_for_aoi(tile, aoi_name) for the next AOI of the loop
HansenRunForAoi ==
    /\ main.script = "hansen"
    /\ main.status = "running"
    /\ LET aoi == Head(main.queue) IN
        IF aoi \notin AoiNames
        THEN /\ MainRaised(aoi)
             /\ UNCHANGED <<fs, rngPerm, runs>>
        ELSE \E tree \in MainShapes, loss \in MainShapes :
               /\ HansenGenerate(<<"hansen_patches", aoi>>, tree, loss, DefaultConfig)
               /\ IF HansenShapeMismatch(tree, loss)
                  THEN MainRaised(aoi)
                  ELSE MainReturned(aoi, "patches")
    /\ UNCHANGED <<cfg, npz, resolved, out, build>>

S2Main ==
    /\ main.status = "idle"
    /\ \E arg \in MainArgs :
          main' = [script |-> "sentinel2", arg |-> arg, queue |-> MainQueue(arg),
                   done |-> <<>>, status |-> "running"]
    /\ UNCHANGED <<cfg, fs, rngPerm, runs, npz, resolved, out, build>>

\* sentinel2_ndvi_aoi.run_for_aoi(aoi_key) for the next AOI of the loop;
\* have18, have22: the composite exists or one of the two searches found items
S2RunForAoi ==
    /\ main.script = "sentinel2"
    /\ main.status = "running"
    /\ LET aoi == Head(main.queue) IN
        IF aoi \notin AoiNames
        THEN /\ MainRaised(aoi)
             /\ UNCHANGED <<fs, rngPerm, runs>>
        ELSE \E have18 \in BOOLEAN, have22 \in BOOLEAN :
               IF ~have18 \/ ~have22
               THEN /\ MainReturned(aoi, "no_data")
                    /\ UNCHANGED <<fs, rngPerm, runs>>
               ELSE \E ndvi18 \in MainShapes, ndvi22 \in MainShapes :
                      /\ NdviGenerate(<<"s2_patches_ndvi", aoi>>, ndvi18, ndvi22,
                                      DefaultConfig)
                      /\ IF NdviShapeMismatch(ndvi18, ndvi22)
                         THEN MainRaised(aoi)
                         ELSE MainReturned(aoi, "patches")
    /\ UNCHANGED <<cfg, npz, resolved, out, build>>

InitMain ==
    /\ cfg = DefaultConfig
    /\ fs = [d \in AllDirs |-> NoDir]
    /\ rngPerm = <<>>
    /\ runs = <<>>
    /\ main = NoMain
    /\ npz = NoNpz
    /\ resolved = NotResolved
    /\ out = NoTables
    /\ build = NoBuild

NextMain == HansenMain \/ HansenRunForAoi \/ S2Main \/ S2RunForAoi

SpecMain == InitMain /\ [][NextMain]_vars

----------------------------------------------------------------------------
(* Arrays with values: [shape, data, nan]; data maps 0-based index tuples to *)
(* numbers and nan is the set of index tuples that hold not-a-number         *)

MaxAxis == 3        \* the axes of a resolver input are 1..MaxAxis long

Indices(shape) ==
    IF Len(shape) = 1 THEN {<<i>> : i \in 0..(shape[1] - 1)}
    ELSE IF Len(shape) = 2
    THEN {<<i, j>> : i \in 0..(shape[1] - 1), j \in 0..(shape[2] - 1)}
    ELSE {<<i, j, k>> : i \in 0..(shape[1] - 1), j \in 0..(shape[2] - 1),
                        k \in 0..(shape[3] - 1)}

\* position of an index tuple in row-major order
FlatIndex(shape, idx) ==
    IF Len(shape) = 1 THEN idx[1]
    ELSE IF Len(shape) = 2 THEN idx[1] * shape[2] + idx[2]
    ELSE (idx[1] * shape[2] + idx[2]) * shape[3] + idx[3]

\* np.arange(start, start + size).reshape(shape)
Arange(shape, start) ==
    [shape |-> shape,
     data |-> [idx \in Indices(shape) |-> start + FlatIndex(shape, idx)],
     nan |-> {}]

\* an array of 0 and 1 whose first k entries in row-major order are 1
OnesFirst(shape, k) ==
    [shape |-> shape,
     data |-> [idx \in Indices(shape) |-> IF FlatIndex(shape, idx) < k THEN 1 ELSE 0],
     nan |-> {}]

\* arr[:, :, b]
BandLast(arr, b) ==
    [shape |-> <<arr.shape[1], arr.shape[2]>>,
     data |-> [idx \in Indices(<<arr.shape[1], arr.shape[2]>>) |->
                  arr.data[<<idx[1], idx[2], b>>]],
     nan |-> {idx \in Indices(<<arr.shape[1], arr.shape[2]>>) :
                  <<idx[1], idx[2], b>> \in arr.nan}]

\* arr[b, :, :]
BandFirst(arr, b) ==
    [shape |-> <<arr.shape[2], arr.shape[3]>>,
     data |-> [idx \in Indices(<<arr.shape[2], arr.shape[3]>>) |->
                  arr.data[<<b, idx[1], idx[2]>>]],
     nan |-> {idx \in Indices(<<arr.shape[2], arr.shape[3]>>) :
                  <<b, idx[1], idx[2]>> \in arr.nan}]

\* arr[b] of an array of one, two or three dimensions
Sub(arr, b) ==
    LET rest == Tail(arr.shape)
        idxs == IF rest = <<>> THEN {<<>>} ELSE Indices(rest)
    IN  [shape |-> rest,
         data |-> [idx \in idxs |-> arr.data[<<b>> \o idx]],
         nan |-> {idx \in idxs : (<<b>> \o idx) \in arr.nan}]

\* the array with not-a-number at the given index tuples
WithNan(arr, where) == [arr EXCEPT !.nan = where]

----------------------------------------------------------------------------
(* extract_ndvi_means / extract_label_array *)

HasKey(keys, k) == \E i \in DOMAIN keys : keys[i] = k

\* the (bands, H, W) test dedented out of "if arr.ndim == 3"
ResolveByShapeDedented(arr) ==
    IF Len(arr.shape) = 3 /\ arr.shape[3] >= 2
    THEN <<BandLast(arr, 0), BandLast(arr, 1)>>
    ELSE IF arr.shape[1] >= 2
    THEN <<Sub(arr, 0), Sub(arr, 1)>>
    ELSE <<arr, arr>>

\* the fallback on the first key: (H, W, bands), then (bands, H, W), then the same array twice
ResolveByShape(arr) ==
    IF Len(arr.shape) = 3 /\ arr.shape[3] >= 2
    THEN <<BandLast(arr, 0), BandLast(arr, 1)>>
    ELSE IF Len(arr.shape) = 3 /\ arr.shape[1] >= 2
    THEN <<BandFirst(arr, 0), BandFirst(arr, 1)>>
    ELSE <<arr, arr>>

extract_ndvi_means(feat_npz) ==
    IF HasKey(feat_npz.keys, "ndvi_2018") /\ HasKey(feat_npz.keys, "ndvi_2022")
    THEN <<feat_npz.arrays["ndvi_2018"], feat_npz.arrays["ndvi_2022"]>>
    ELSE ResolveByShape(feat_npz.arrays[feat_npz.keys[1]])

extract_label_array(label_npz) ==
    IF HasKey(label_npz.keys, "label")
    THEN label_npz.arrays["label"]
    ELSE label_npz.arrays[label_npz.keys[1]]

\* Feature containers.  layout records how the producer laid the bands out;
\* the resolver cannot read it.
StackedNpz(shape, layout) ==
    [keys |-> <<"ndvi", "row", "col", "patch_size", "years">>,
     arrays |-> [ndvi |-> Arange(shape, 0)],
     layout |-> layout]

PlainNpz(shape) ==
    [keys |-> <<"ndvi">>, arrays |-> [ndvi |-> Arange(shape, 0)], layout |-> "single"]

ExplicitNpz(shape, keys) ==
    [keys |-> keys,
     arrays |-> [k \in SeqRange(keys) |->
                    IF k = "ndvi_2018" THEN Arange(shape, 0)
                    ELSE IF k = "ndvi_2022" THEN Arange(shape, shape[1] * shape[2])
                    ELSE Arange(<<2>> \o shape, 0)],
     layout |-> "explicit"]

Axis == 1..MaxAxis

ResolverInputs ==
    {StackedNpz(<<a, b, c>>, layout) :
        a \in Axis, b \in Axis, c \in Axis, layout \in {"band_first", "band_last"}}
    \cup {PlainNpz(<<a, b>>) : a \in Axis, b \in Axis}
    \cup {ExplicitNpz(<<a, b>>, keys) :
            a \in Axis, b \in Axis,
            keys \in {<<"ndvi_2018", "ndvi_2022">>, <<"stack", "ndvi_2022", "ndvi_2018">>}}

Resolve ==
    /\ ~resolved.done
    /\ LET r == extract_ndvi_means(npz) IN
          resolved' = [done |-> TRUE, before |-> r[1], after |-> r[2]]
    /\ UNCHANGED <<cfg, fs, rngPerm, runs, main, npz, out, build>>

InitResolver ==
    /\ cfg = DefaultConfig
    /\ fs = [d \in AllDirs |-> NoDir]
    /\ rngPerm = <<>>
    /\ runs = <<>>
    /\ main = NoMain
    /\ npz \in ResolverInputs
    /\ resolved = NotResolved
    /\ out = NoTables
    /\ build = NoBuild

NextResolver == Resolve

SpecResolver == InitResolver /\ [][NextResolver]_vars

----------------------------------------------------------------------------
(* Summary statistics: a mean is not-a-number or the fraction num/den in    *)
(* lowest terms                                                              *)

RECURSIVE GCD(_, _)
GCD(a, b) == IF b = 0 THEN a ELSE GCD(b, a % b)

Abs(x) == IF x < 0 THEN 0 - x ELSE x

NanValue == [nan |-> TRUE, num |-> 0, den |-> 1]

Ratio(n, d) ==
    LET g == GCD(Abs(n), d) IN [nan |-> FALSE, num |-> n \div g, den |-> d \div g]

RECURSIVE SumOver(_, _)
SumOver(f, S) ==
    IF S = {} THEN 0
    ELSE LET x == CHOOSE y \in S : TRUE IN f[x] + SumOver(f, S \ {x})

\* float(np.nanmean(arr)): the mean of the entries that are numbers
NanMean(arr) ==
    LET valid == (DOMAIN arr.data) \ arr.nan IN
    IF valid = {} THEN NanValue
    ELSE Ratio(SumOver(arr.data, valid), Cardinality(valid))

\* a - b in floating point: not-a-number if either is
Minus(a, b) ==
    IF a.nan \/ b.nan THEN NanValue
    ELSE Ratio(a.num * b.den - b.num * a.den, a.den * b.den)

\* int(loss_fraction > 0.5)
LossBinaryStrict(loss_fraction) ==
    IF ~loss_fraction.nan /\ 2 * loss_fraction.num > loss_fraction.den THEN 1 ELSE 0

\* int(loss_fraction >= 0.5)
LossBinary(loss_fraction) ==
    IF ~loss_fraction.nan /\ 2 * loss_fraction.num >= loss_fraction.den THEN 1 ELSE 0

----------------------------------------------------------------------------
(* build_patch_csv_from_npz.py *)

BUILD_AOIS == <<"la_pampa", "tambopata", "madre_de_dios_corridor">>

Columns == <<"aoi", "patch_file", "ndvi_2018_mean", "ndvi_2022_mean", "ndvi_diff",
             "loss_fraction", "loss_binary">>

\* a < b for file names, character by character
RECURSIVE LexLess(_, _)
LexLess(a, b) ==
    IF b = <<>> THEN FALSE
    ELSE IF a = <<>> THEN TRUE
    ELSE IF Head(a) # Head(b) THEN Head(a) < Head(b)
    ELSE LexLess(Tail(a), Tail(b))

\* sorted(names), descending
RECURSIVE SortedDescending(_)
SortedDescending(names) ==
    IF names = {} THEN <<>>
    ELSE LET m == CHOOSE x \in names : \A y \in names : y = x \/ LexLess(y, x)
         IN  <<m>> \o SortedDescending(names \ {m})

\* sorted(feat_dir.glob("patch_*.npz"))
RECURSIVE Sorted(_)
Sorted(names) ==
    IF names = {} THEN <<>>
    ELSE LET m == CHOOSE x \in names : \A y \in names : y = x \/ LexLess(x, y)
         IN  <<m>> \o Sorted(names \ {m})

\* the dict appended to rows for one feature file and its label file
PatchRow(aoi, patch_name, feat_npz, lab_npz) ==
    LET pair == extract_ndvi_means(feat_npz)
        label_arr == extract_label_array(lab_npz)
        ndvi18_mean == NanMean(pair[1])
        ndvi22_mean == NanMean(pair[2])
        loss_fraction == NanMean(label_arr)
    IN  [aoi |-> aoi, patch_file |-> patch_name,
         ndvi_2018_mean |-> ndvi18_mean, ndvi_2022_mean |-> ndvi22_mean,
         ndvi_diff |-> Minus(ndvi22_mean, ndvi18_mean),
         loss_fraction |-> loss_fraction,
         loss_binary |-> LossBinary(loss_fraction)]

\* break for continue: the first feature file without a label ends the loop
RECURSIVE FeatureLoopStopping(_, _, _, _)
FeatureLoopStopping(aoi, names, i, acc) ==
    IF i > Len(names) THEN acc
    ELSE IF names[i] \notin DOMAIN fs[LabDir(aoi)].files
    THEN [rows |-> acc.rows,
          warnings |-> acc.warnings \cup
              {[kind |-> "no_label", aoi |-> aoi, patch_file |-> names[i]]}]
    ELSE FeatureLoopStopping(aoi, names, i + 1,
            [rows |-> Append(acc.rows,
                        PatchRow(aoi, names[i], fs[FeatDir(aoi)].files[names[i]],
                                 fs[LabDir(aoi)].files[names[i]])),
             warnings |-> acc.warnings])

\* the loop of build_aoi_csv over the sorted feature files, from the i-th on
RECURSIVE FeatureLoop(_, _, _, _)
FeatureLoop(aoi, names, i, acc) ==
    IF i > Len(names) THEN acc
    ELSE IF names[i] \notin DOMAIN fs[LabDir(aoi)].files
    THEN FeatureLoop(aoi, names, i + 1,
            [rows |-> acc.rows,
             warnings |-> acc.warnings \cup
                 {[kind |-> "no_label", aoi |-> aoi, patch_file |-> names[i]]}])
    ELSE FeatureLoop(aoi, names, i + 1,
            [rows |-> Append(acc.rows,
                        PatchRow(aoi, names[i], fs[FeatDir(aoi)].files[names[i]],
                                 fs[LabDir(aoi)].files[names[i]])),
             warnings |-> acc.warnings])

\* df.to_csv(out_path, index=False)
ToCsv(df) ==
    [exists |-> TRUE, header |-> Columns,
     lines |-> [i \in DOMAIN df |-> [c \in DOMAIN Columns |-> df[i][Columns[c]]]]]

\* pd.read_csv(csv_path)
ReadCsv(csv) ==
    [i \in DOMAIN csv.lines |->
        [name \in SeqRange(csv.header) |->
            csv.lines[i][CHOOSE c \in DOMAIN csv.header : csv.header[c] = name]]]

\* build_aoi_csv(aoi): the rows, the warnings, and the table written (or None)
build_aoi_csv(aoi) ==
    IF ~fs[FeatDir(aoi)].exists \/ ~fs[LabDir(aoi)].exists
    THEN [rows |-> <<>>, written |-> FALSE, csv |-> NoFile,
          warnings |-> {[kind |-> "missing_dir", aoi |-> aoi, patch_file |-> <<>>]}]
    ELSE LET loop == FeatureLoop(aoi, Sorted(DOMAIN fs[FeatDir(aoi)].files), 1,
                                 [rows |-> <<>>, warnings |-> {}])
         IN  IF loop.rows = <<>>
             THEN [rows |-> <<>>, written |-> FALSE, csv |-> NoFile,
                   warnings |-> loop.warnings \cup
                       {[kind |-> "no_rows", aoi |-> aoi, patch_file |-> <<>>]}]
             ELSE [rows |-> loop.rows, written |-> TRUE, csv |-> ToCsv(loop.rows),
                   warnings |-> loop.warnings]

\* abort unless every AOI gave a table
SomeTableMissing(all_dfs) == Len(all_dfs) < Len(BUILD_AOIS)

\* if not all_dfs: abort unless one AOI gave a table
NothingToCombine(all_dfs) == all_dfs = <<>>

\* all_dfs.insert(0, df)
Prepend(all_dfs, df) == <<df>> \o all_dfs

\* all_dfs.append(df)
AppendDf(all_dfs, df) == Append(all_dfs, df)

\* pd.concat(all_dfs, ignore_index=True)
RECURSIVE Concat(_)
Concat(all_dfs) ==
    IF all_dfs = <<>> THEN <<>> ELSE Head(all_dfs) \o Concat(Tail(all_dfs))

\* combined.to_csv(alias_out): index=False left out, the row index becomes a column
AliasWithIndex(combined) ==
    [exists |-> TRUE, header |-> <<"">> \o Columns,
     lines |-> [i \in DOMAIN combined |->
                  <<i - 1>> \o [c \in DOMAIN Columns |-> combined[i][Columns[c]]]]]

\* combined.to_csv(alias_out, index=False)
AliasTable(combined) == ToCsv(combined)

\* combined.to_csv(combined_out, index=False)
CombinedTable(combined) == ToCsv(combined)

\* what a finished run of main leaves behind, next to the directories it read
BuildRecord(status, tables) ==
    [inputs |-> fs, status |-> status,
     combined |-> tables.combined, alias |-> tables.alias]

\* main() starts: all_dfs = []
BuildMain ==
    /\ build.status = "idle"
    /\ build' = [status |-> "loop", queue |-> BUILD_AOIS, all_dfs |-> <<>>,
                 rows |-> <<>>, warnings |-> {}, history |-> build.history]
    /\ UNCHANGED <<cfg, fs, rngPerm, runs, main, npz, resolved, out>>

\* one pass of "for aoi in AOIS": build_aoi_csv, then read_csv of what it wrote
BuildAoi ==
    /\ build.status = "loop"
    /\ build.queue # <<>>
    /\ LET aoi == Head(build.queue)
           r == build_aoi_csv(aoi)
       IN  /\ out' = IF r.written THEN [out EXCEPT !.per[aoi] = r.csv] ELSE out
           /\ build' = [build EXCEPT
                 !.queue = Tail(@),
                 !.all_dfs = IF r.written THEN AppendDf(@, ReadCsv(r.csv)) ELSE @,
                 !.rows = Append(@, [aoi |-> aoi, rows |-> r.rows, written |-> r.written]),
                 !.warnings = @ \cup r.warnings]
    /\ UNCHANGED <<cfg, fs, rngPerm, runs, main, npz, resolved>>

\* after the loop: abort, or concat and write the combined table and its alias
BuildCombine ==
    /\ build.status = "loop"
    /\ build.queue = <<>>
    /\ IF NothingToCombine(build.all_dfs)
       THEN /\ build' = [build EXCEPT !.status = "aborted",
                            !.history = Append(@, BuildRecord("aborted", out))]
            /\ UNCHANGED out
       ELSE LET combined == Concat(build.all_dfs)
                tables == [out EXCEPT !.combined = CombinedTable(combined),
                                      !.alias = AliasTable(combined)]
            IN  /\ out' = tables
                /\ build' = [build EXCEPT !.status = "written",
                                 !.history = Append(@, BuildRecord("written", tables))]
    /\ UNCHANGED <<cfg, fs, rngPerm, runs, main, npz, resolved>>

\* The files a patch directory may hold, and what they hold
PatchNumbers == {0, 1}

TableFeatures ==
    {StackedNpz(<<2, 2, 2>>, "band_first"),
     ExplicitNpz(<<2, 2>>, <<"ndvi_2018", "ndvi_2022">>)}

LabelNpz(shape, k) ==
    [keys |-> <<"label">>, arrays |-> [label |-> OnesFirst(shape, k)], layout |-> "label"]

TableLabels == {LabelNpz(<<2, 2>>, 1), LabelNpz(<<2, 2>>, 2)}

DirStates(content) ==
    {NoDir} \cup
    {[exists |-> TRUE, files |-> [n \in {PatchId(k) : k \in S} |-> content]] :
        S \in SUBSET PatchNumbers}

InitTable ==
    /\ cfg = DefaultConfig
    /\ \E feat \in TableFeatures, lab \in TableLabels :
          \E fd \in [AoiNames -> DirStates(feat)], ld \in [AoiNames -> DirStates(lab)] :
            fs = [d \in AllDirs |->
                    IF d[1] = "features" THEN fd[d[2]]
                    ELSE IF d[1] = "labels" THEN ld[d[2]]
                    ELSE NoDir]
    /\ rngPerm = <<>>
    /\ runs = <<>>
    /\ main = NoMain
    /\ npz = NoNpz
    /\ resolved = NotResolved
    /\ out = NoTables
    /\ build = NoBuild

NextTable == BuildMain \/ BuildAoi \/ BuildCombine

SpecTable == InitTable /\ [][NextTable]_vars

\* One feature file and its label file, with any of the array layouts and
\* not-a-number pixels the builder may meet
RowAoi == BUILD_AOIS[1]

RowShapes == {<<2>>, <<1, 2>>, <<2, 2>>, <<1, 2, 1>>}

LabelShapes == {<<2, 2>>, <<1, 3>>}

Count(shape) == Cardinality(Indices(shape))

RowFeatures ==
    UNION {{[keys |-> <<"ndvi">>,
             arrays |-> [ndvi |-> WithNan(Arange(shape, 1), where)],
             layout |-> "single"] : where \in SUBSET Indices(shape)} :
           shape \in RowShapes}
    \cup {StackedNpz(<<2, 2, 2>>, "band_last"),
          ExplicitNpz(<<2, 2>>, <<"ndvi_2018", "ndvi_2022">>)}

RowLabels ==
    UNION {{[keys |-> <<"label">>,
             arrays |-> [label |-> WithNan(OnesFirst(shape, k), where)],
             layout |-> "label"] :
               k \in 0..Count(shape), where \in SUBSET Indices(shape)} :
           shape \in LabelShapes}
    \cup {[keys |-> <<"treecover", "loss">>,
           arrays |-> [treecover |-> Arange(<<2, 2>>, 0), loss |-> OnesFirst(<<2, 2>>, 1)],
           layout |-> "hansen"]}

InitRow ==
    /\ cfg = DefaultConfig
    /\ \E feat \in RowFeatures, lab \in RowLabels :
          fs = [d \in AllDirs |->
                  IF d = FeatDir(RowAoi)
                  THEN [exists |-> TRUE, files |-> [n \in {PatchId(0)} |-> feat]]
                  ELSE IF d = LabDir(RowAoi)
                  THEN [exists |-> TRUE, files |-> [n \in {PatchId(0)} |-> lab]]
                  ELSE NoDir]
    /\ rngPerm = <<>>
    /\ runs = <<>>
    /\ main = NoMain
    /\ npz = NoNpz
    /\ resolved = NotResolved
    /\ out = NoTables
    /\ build = NoBuild

NextRow == BuildMain \/ BuildAoi \/ BuildCombine

SpecRow == InitRow /\ [][NextRow]_vars

\* Runs of the script one after the other, the patch directories changing in between
BuildOrder == <<"first", "second">>

RerunFeature == ExplicitNpz(<<2, 2>>, <<"ndvi_2018", "ndvi_2022">>)

RerunLabel == LabelNpz(<<2, 2>>, 1)

\* main() started again after an earlier run has ended
BuildAgain ==
    /\ build.status \in {"aborted", "written"}
    /\ Len(build.history) < Len(BuildOrder)
    /\ build' = [status |-> "loop", queue |-> BUILD_AOIS, all_dfs |-> <<>>,
                 rows |-> <<>>, warnings |-> {}, history |-> build.history]
    /\ UNCHANGED <<cfg, fs, rngPerm, runs, main, npz, resolved, out>>

\* between two runs label files of an AOI are added or removed, or the directory is
PatchesChange ==
    /\ build.status \in {"aborted", "written"}
    /\ Len(build.history) < Len(BuildOrder)
    /\ \E aoi \in AoiNames, d \in DirStates(RerunLabel) :
          /\ d # fs[LabDir(aoi)]
          /\ fs' = [fs EXCEPT ![LabDir(aoi)] = d]
    /\ UNCHANGED <<cfg, rngPerm, runs, main, npz, resolved, out, build>>

InitRerun ==
    /\ cfg = DefaultConfig
    /\ \E ld \in [AoiNames -> DirStates(RerunLabel)] :
          fs = [d \in AllDirs |->
                  IF d[1] = "features"
                  THEN [exists |-> TRUE,
                        files |-> [n \in {PatchId(k) : k \in PatchNumbers} |-> RerunFeature]]
                  ELSE IF d[1] = "labels" THEN ld[d[2]]
                  ELSE NoDir]
    /\ rngPerm = <<>>
    /\ runs = <<>>
    /\ main = NoMain
    /\ npz = NoNpz
    /\ resolved = NotResolved
    /\ out = NoTables
    /\ build = NoBuild

NextRerun == BuildMain \/ BuildAoi \/ BuildCombine \/ BuildAgain \/ PatchesChange

SpecRerun == InitRerun /\ [][NextRerun]_vars

----------------------------------------------------------------------------
(* Properties of the extraction *)

\* the strided grid of top-left corners, as the data model defines it
ExhaustiveGrid(height, width, patch_size, stride) ==
    {rc \in (0..(height - patch_size)) \X (0..(width - patch_size)) :
        rc[1] % stride = 0 /\ rc[2] % stride = 0}

RunGrid(r) == ExhaustiveGrid(r.shapes[1][1], r.shapes[1][2], cfg.patch_size, cfg.stride)

\* build_aoi_csv: the feature files whose name also exists among the labels
MatchedNames(aoi) ==
    IF ~fs[FeatDir(aoi)].exists \/ ~fs[LabDir(aoi)].exists THEN {}
    ELSE {n \in DOMAIN fs[FeatDir(aoi)].files : n \in DOMAIN fs[LabDir(aoi)].files}

\* C1: every feature artifact and label artifact that build_aoi_csv pairs by
\* file name were cut at the same (row, col), whatever the rasters of the two
\* extraction runs were.
C1_Alignment ==
    \A aoi \in AoiNames : \A n \in MatchedNames(aoi) :
        /\ fs[FeatDir(aoi)].files[n].row = fs[LabDir(aoi)].files[n].row
        /\ fs[FeatDir(aoi)].files[n].col = fs[LabDir(aoi)].files[n].col

\* C2: two calls on grids of the same height and width (same patch_size and
\* stride) traverse the same coordinates in the same order, whether they are
\* two calls of one extractor or one call of each.
C2_Determinism ==
    \A i, j \in DOMAIN runs :
        (/\ runs[i].status = "returned"
         /\ runs[j].status = "returned"
         /\ runs[i].shapes[1] = runs[j].shapes[1])
        => runs[i].coords = runs[j].coords

C2_Witness ==
    \E i, j \in DOMAIN runs :
        /\ runs[i].source = "hansen" /\ runs[j].source = "ndvi"
        /\ runs[i].status = "returned" /\ runs[j].status = "returned"
        /\ runs[i].shapes[1] = runs[j].shapes[1]
        /\ Len(runs[i].coords) = 4
        /\ runs[i].coords # runs[i].grid

\* C3: the traversed coordinates are a permutation of the exhaustive strided
\* grid, every one within 0..height-patch_size and 0..width-patch_size; the
\* 64x64 grid with patch_size 32 and stride 16 has the nine listed coordinates.
C3_CoverageBound ==
    /\ \A i \in DOMAIN runs :
          runs[i].status = "returned" =>
            /\ SeqRange(runs[i].coords) = RunGrid(runs[i])
            /\ Len(runs[i].coords) = Cardinality(RunGrid(runs[i]))
            /\ \A k \in DOMAIN runs[i].coords :
                  /\ 0 <= runs[i].coords[k][1]
                  /\ runs[i].coords[k][1] <= runs[i].shapes[1][1] - cfg.patch_size
                  /\ 0 <= runs[i].coords[k][2]
                  /\ runs[i].coords[k][2] <= runs[i].shapes[1][2] - cfg.patch_size
    /\ HansenGrid(64, 64, PATCH_SIZE, STRIDE) =
          << <<0, 0>>, <<0, 16>>, <<0, 32>>, <<16, 0>>, <<16, 16>>, <<16, 32>>,
             <<32, 0>>, <<32, 16>>, <<32, 32>> >>
    /\ NdviGrid(64, 64, PATCH_SIZE, STRIDE) = HansenGrid(64, 64, PATCH_SIZE, STRIDE)

C3_Witness ==
    \E i \in DOMAIN runs :
        /\ runs[i].status = "returned"
        /\ Len(runs[i].coords) = 4
        /\ runs[i].coords # runs[i].grid

\* C4: a call on a grid of M valid coordinates emits min(M, target_max)
\* artifacts, the first ones of the shuffled sequence, and returns that count;
\* M is 0 when the raster is smaller than a patch.
C4_TargetClamp ==
    \A i \in DOMAIN runs :
        runs[i].status = "returned" =>
          LET M == Cardinality(RunGrid(runs[i]))
              n == Min(M, cfg.target_max)
          IN  /\ Len(runs[i].emitted) = n
              /\ runs[i].total_patches = n
              /\ \A k \in 1..Len(runs[i].emitted) :
                    /\ runs[i].emitted[k].row = runs[i].coords[k][1]
                    /\ runs[i].emitted[k].col = runs[i].coords[k][2]
              /\ Cardinality(DOMAIN fs[runs[i].out_dir].files) = n
              /\ (\/ runs[i].shapes[1][1] < cfg.patch_size
                   \/ runs[i].shapes[1][2] < cfg.patch_size) => M = 0 /\ n = 0

C4_Witness ==
    \E i \in DOMAIN runs :
        /\ runs[i].status = "returned"
        /\ cfg.target_max >= 1
        /\ Len(runs[i].coords) > cfg.target_max
        /\ Len(runs[i].emitted) = cfg.target_max

\* C7: a call whose two rasters differ in (height, width) raises before it
\* generates a coordinate, shuffles or writes an artifact.
C7_ShapeMismatch ==
    \A i \in DOMAIN runs :
        runs[i].shapes[1] # runs[i].shapes[2] =>
          /\ runs[i].status = "ValueError"
          /\ ~runs[i].coordsGenerated
          /\ ~runs[i].returned
          /\ runs[i].emitted = <<>>
          /\ DOMAIN fs[runs[i].out_dir].files = {}
          /\ DOMAIN rngPerm = {}

C7_Witness ==
    \E i \in DOMAIN runs :
        /\ runs[i].shapes[1] # runs[i].shapes[2]
        /\ runs[i].status = "ValueError"
        /\ fs[runs[i].out_dir].exists

\* the six digits of patch_00000k, for k below ten
SixDigits(k) == [i \in 1..6 |-> IF i = 6 THEN k ELSE 0]

\* the arrays a patch artifact holds are the patch_size x patch_size windows
\* of the source rasters at (row, col)
HoldsPatchAt(artifact, source, row, col) ==
    /\ artifact.row = row
    /\ artifact.col = col
    /\ artifact.patch_size = cfg.patch_size
    /\ IF source = "hansen"
       THEN /\ DOMAIN artifact.arrays = {"treecover", "loss"}
            /\ \A a \in {"treecover", "loss"} :
                  artifact.arrays[a] =
                      [of |-> a, row0 |-> row, col0 |-> col,
                       shape |-> <<cfg.patch_size, cfg.patch_size>>]
       ELSE /\ DOMAIN artifact.arrays = {"ndvi"}
            /\ artifact.arrays["ndvi"] =
                  [of |-> "stacked", row0 |-> row, col0 |-> col,
                   shape |-> <<2, cfg.patch_size, cfg.patch_size>>]

\* C12: a run that emits n artifacts names them patch_000000 .. patch_(n-1)
\* in emission order, without gap or repeat, and the artifact named k holds
\* the patch and the (row, col, patch_size) of the k-th coordinate (from 0) of
\* the shuffled sequence.
C12_IdentifierAssignment ==
    \A i \in DOMAIN runs :
        runs[i].status = "returned" =>
          LET n == Len(runs[i].emitted)
              files == fs[runs[i].out_dir].files
          IN  /\ \A k \in 1..n : runs[i].emitted[k].id = SixDigits(k - 1)
              /\ DOMAIN files = {SixDigits(k) : k \in 0..(n - 1)}
              /\ Cardinality(DOMAIN files) = n
              /\ \A k \in 0..(n - 1) :
                    HoldsPatchAt(files[SixDigits(k)], runs[i].source,
                                 runs[i].coords[k + 1][1], runs[i].coords[k + 1][2])

C12_Witness ==
    \E i \in DOMAIN runs :
        /\ runs[i].status = "returned"
        /\ Len(runs[i].emitted) >= 2
        /\ Len(runs[i].emitted) < Len(runs[i].coords)
        /\ runs[i].coords # runs[i].grid

\* C13: a call on two rasters of the same shape always returns its count and
\* never raises; it warns exactly when it left fewer than target_min
\* artifacts (none at all included), and what it emitted stays in the
\* directory.
C13_SoftGate ==
    \A i \in DOMAIN runs :
        runs[i].shapes[1] = runs[i].shapes[2] =>
          LET files == fs[runs[i].out_dir].files IN
          /\ runs[i].status = "returned"
          /\ runs[i].returned
          /\ runs[i].total_patches = Len(runs[i].emitted)
          /\ runs[i].warned <=> (Cardinality(DOMAIN files) < cfg.target_min)
          /\ \A k \in DOMAIN runs[i].emitted :
                /\ runs[i].emitted[k].id \in DOMAIN files
                /\ files[runs[i].emitted[k].id].row = runs[i].emitted[k].row
                /\ files[runs[i].emitted[k].id].col = runs[i].emitted[k].col

C13_Witness ==
    \E i \in DOMAIN runs :
        /\ runs[i].status = "returned"
        /\ runs[i].warned
        /\ Len(runs[i].emitted) >= 1
        /\ Len(runs[i].emitted) = Len(runs[i].coords)
        /\ Len(runs[i].emitted) < cfg.target_min
        /\ Cardinality(DOMAIN fs[runs[i].out_dir].files) = Len(runs[i].emitted)

\* the identifiers a run emitted
EmittedIds(r) == {r.emitted[k].id : k \in DOMAIN r.emitted}

\* the call that has just ended, if a call has
EndedRun == runs'[Len(runs')]

\* C16: no extraction call replaces or removes an artifact that exists under
\* an identifier, whichever earlier call wrote it, and when a call returns its
\* directory holds exactly the artifacts that call emitted.
C16_Immutability ==
    [][\A d \in AllDirs :
          /\ \A n \in DOMAIN fs[d].files :
                /\ n \in DOMAIN fs'[d].files
                /\ fs'[d].files[n] = fs[d].files[n]
          /\ (/\ Len(runs') > Len(runs)
              /\ EndedRun.out_dir = d
              /\ EndedRun.status = "returned")
             => DOMAIN fs'[d].files = EmittedIds(EndedRun)]_vars

----------------------------------------------------------------------------
(* Properties of the extraction scripts *)

MainEnded == main.status \in {"exited", "ValueError"}

\* C6: a run over all AOIs that meets an AOI whose rasters differ in shape
\* aborts that AOI only: when the run has ended, run_for_aoi has been called
\* for every AOI of the registry.
C6_AbortScope ==
    (main.arg = "all" /\ MainEnded) =>
        [i \in DOMAIN main.done |-> main.done[i].aoi] = AOIS

----------------------------------------------------------------------------
(* Properties of the resolver *)

FirstArray(c) == c.arrays[c.keys[1]]

NoExplicitPair(c) == ~(HasKey(c.keys, "ndvi_2018") /\ HasKey(c.keys, "ndvi_2022"))

\* C5: without the explicit key pair, a first array that is 3-dimensional
\* with the band axis first and at least two bands resolves to its bands 0
\* and 1, (arr[0], arr[1]).
C5_BandFirst ==
    (/\ resolved.done
     /\ NoExplicitPair(npz)
     /\ npz.layout = "band_first"
     /\ Len(FirstArray(npz).shape) = 3
     /\ FirstArray(npz).shape[1] >= 2)
    => /\ resolved.before = BandFirst(FirstArray(npz), 0)
       /\ resolved.after = BandFirst(FirstArray(npz), 1)

----------------------------------------------------------------------------
(* Properties of the table builder *)

\* the (aoi, file name) pairs that have a feature artifact and a label artifact
MatchedPairs == {an \in AoiNames \X {PatchId(k) : k \in PatchNumbers} :
                    an[2] \in MatchedNames(an[1])}

RowKeys(rows) == {<<rows[i].aoi, rows[i].patch_file>> : i \in DOMAIN rows}

FeatureNames(aoi) ==
    IF fs[FeatDir(aoi)].exists /\ fs[LabDir(aoi)].exists
    THEN DOMAIN fs[FeatDir(aoi)].files ELSE {}

\* C8: build_aoi_csv makes one row for each feature artifact that has a label
\* artifact of the same name and none for any other; a feature artifact
\* without a label is skipped with a warning and the later ones are still
\* processed.
C8_Pairing ==
    \A i \in DOMAIN build.rows :
        LET aoi == build.rows[i].aoi
            rows == build.rows[i].rows
        IN  /\ {rows[k].patch_file : k \in DOMAIN rows} = MatchedNames(aoi)
            /\ Len(rows) = Cardinality(MatchedNames(aoi))
            /\ \A k \in DOMAIN rows : rows[k].aoi = aoi
            /\ \A n \in FeatureNames(aoi) :
                  ([kind |-> "no_label", aoi |-> aoi, patch_file |-> n] \in build.warnings)
                  <=> n \notin MatchedNames(aoi)

C8_Witness ==
    \E i \in DOMAIN build.rows :
        LET aoi == build.rows[i].aoi IN
        /\ PatchId(0) \in FeatureNames(aoi)
        /\ PatchId(0) \notin MatchedNames(aoi)
        /\ PatchId(1) \in MatchedNames(aoi)
        /\ Len(build.rows[i].rows) = 1
        /\ build.rows[i].rows[1].patch_file = PatchId(1)

ClaimedAoiOrder == <<"la_pampa", "tambopata", "madre_de_dios_corridor">>

AoiPos(aoi) == CHOOSE i \in DOMAIN ClaimedAoiOrder : ClaimedAoiOrder[i] = aoi

CombinedRows == ReadCsv(out.combined)

\* C9: the combined table holds the rows of the per-AOI tables in the order
\* la_pampa, tambopata, madre_de_dios_corridor, each AOI's rows together and
\* in ascending file-name order, none lost, duplicated or reordered.
C9_CombinedOrder ==
    build.status = "written" =>
        /\ \A i, j \in DOMAIN CombinedRows :
              i < j =>
                \/ AoiPos(CombinedRows[i].aoi) < AoiPos(CombinedRows[j].aoi)
                \/ /\ CombinedRows[i].aoi = CombinedRows[j].aoi
                   /\ LexLess(CombinedRows[i].patch_file, CombinedRows[j].patch_file)
        /\ RowKeys(CombinedRows) = MatchedPairs
        /\ Len(CombinedRows) = Cardinality(MatchedPairs)
        /\ \A a \in AoiNames :
              SelectSeq(CombinedRows, LAMBDA r : r.aoi = a) = ReadCsv(out.per[a])

C9_Witness ==
    /\ build.status = "written"
    /\ Len(CombinedRows) >= 3
    /\ CombinedRows[1].aoi = "la_pampa"
    /\ CombinedRows[2].aoi = "la_pampa"
    /\ CombinedRows[Len(CombinedRows)].aoi = "madre_de_dios_corridor"

BuildEnded == build.status \in {"aborted", "written"}

\* C10: the combine aborts, writing no combined table, exactly when no AOI
\* produced a table; an AOI without directories or without rows is left out
\* with a warning, and otherwise the combined table is written and holds
\* exactly the rows of the AOIs that produced a table.
C10_CombineFailure ==
    BuildEnded =>
        /\ (build.status = "aborted") <=> (\A a \in AoiNames : MatchedNames(a) = {})
        /\ build.status = "aborted" => ~out.combined.exists /\ ~out.alias.exists
        /\ build.status = "written" =>
              /\ out.combined.exists
              /\ RowKeys(CombinedRows) = MatchedPairs
              /\ Len(CombinedRows) = Cardinality(MatchedPairs)
        /\ \A a \in AoiNames :
              MatchedNames(a) = {} =>
                /\ ~out.per[a].exists
                /\ \E w \in build.warnings :
                      w.aoi = a /\ w.kind \in {"missing_dir", "no_rows"}

C10_Witness ==
    /\ build.status = "written"
    /\ MatchedNames("la_pampa") = {}
    /\ ~fs[FeatDir("tambopata")].exists
    /\ MatchedNames("madre_de_dios_corridor") # {}
    /\ [kind |-> "no_rows", aoi |-> "la_pampa", patch_file |-> <<>>] \in build.warnings
    /\ [kind |-> "missing_dir", aoi |-> "tambopata", patch_file |-> <<>>] \in build.warnings

\* C11: whenever a run of the script has ended, the combined table and its
\* alias hold the same content, whatever the earlier runs wrote or left; and
\* two runs that read the same patch directories and both write leave the
\* same combined content.
C11_AliasIdentity ==
    /\ BuildEnded => out.combined = out.alias
    /\ \A i \in DOMAIN build.history :
          /\ build.history[i].combined = build.history[i].alias
          /\ \A j \in DOMAIN build.history :
                build.history[i].inputs = build.history[j].inputs
                => /\ build.history[i].status = build.history[j].status
                   /\ build.history[i].status = "written"
                      => build.history[i].combined = build.history[j].combined

C11_Witness ==
    /\ Len(build.history) = 2
    /\ build.history[1].status = "written"
    /\ build.history[2].status = "written"
    /\ build.history[1].inputs = build.history[2].inputs
    /\ Len(out.combined.lines) >= 3
    /\ out.per["la_pampa"].exists /\ out.per["tambopata"].exists
    /\ out.alias.exists

----------------------------------------------------------------------------
(* Properties of a row *)

RowFeat == fs[FeatDir(RowAoi)].files[PatchId(0)]

RowLab == fs[LabDir(RowAoi)].files[PatchId(0)]

HasRow == Len(build.rows) >= 1 /\ Len(build.rows[1].rows) = 1

BuiltRow == build.rows[1].rows[1]

\* no explicit key pair, and the first array is not 3-dimensional with two
\* or more bands on its first or its last axis
IsFallbackCase(c) ==
    /\ NoExplicitPair(c)
    /\ ~(/\ Len(FirstArray(c).shape) = 3
          /\ (FirstArray(c).shape[1] >= 2 \/ FirstArray(c).shape[3] >= 2))

\* == on two floats: never true of not-a-number
FloatEq(a, b) == ~a.nan /\ ~b.nan /\ a.num * b.den = b.num * a.den

IsZero(a) == ~a.nan /\ a.num = 0

SomeNumber(arr) == (DOMAIN arr.data) \ arr.nan # {}

\* C14 as stated: in the fallback case the resolver returns the first array
\* as both 'before' and 'after', and the row has ndvi_2018_mean equal to
\* ndvi_2022_mean and ndvi_diff equal to 0.
C14_DegradedFallback ==
    (HasRow /\ IsFallbackCase(RowFeat)) =>
        /\ extract_ndvi_means(RowFeat) = <<FirstArray(RowFeat), FirstArray(RowFeat)>>
        /\ FloatEq(BuiltRow.ndvi_2018_mean, BuiltRow.ndvi_2022_mean)
        /\ IsZero(BuiltRow.ndvi_diff)

\* C14 amended: in the fallback case the resolver returns the first array as
\* both 'before' and 'after' and the row is built; if the array holds at least
\* one number the two means are equal and ndvi_diff is 0, and if every entry
\* is not-a-number the two means and ndvi_diff are not-a-number.
C14_FallbackUnlessAllNan ==
    (HasRow /\ IsFallbackCase(RowFeat)) =>
        /\ extract_ndvi_means(RowFeat) = <<FirstArray(RowFeat), FirstArray(RowFeat)>>
        /\ IF SomeNumber(FirstArray(RowFeat))
           THEN /\ FloatEq(BuiltRow.ndvi_2018_mean, BuiltRow.ndvi_2022_mean)
                /\ IsZero(BuiltRow.ndvi_diff)
           ELSE /\ BuiltRow.ndvi_2018_mean.nan
                /\ BuiltRow.ndvi_2022_mean.nan
                /\ BuiltRow.ndvi_diff.nan

C14_Witness ==
    /\ HasRow
    /\ build.status = "written"
    /\ IsFallbackCase(RowFeat)
    /\ FirstArray(RowFeat).shape = <<2, 2>>
    /\ Cardinality(FirstArray(RowFeat).nan) = 1
    /\ IsZero(BuiltRow.ndvi_diff)
    /\ ~IsZero(BuiltRow.ndvi_2018_mean)

LabelArray == extract_label_array(RowLab)

ValidPixels == (DOMAIN LabelArray.data) \ LabelArray.nan

LossPixels == {idx \in ValidPixels : LabelArray.data[idx] = 1}

AtLeastHalf(f) == ~f.nan /\ 2 * f.num >= f.den

\* C15 as stated: the row's loss_binary is 1 exactly when loss_fraction >= 0.5
\* and 0 otherwise, and for a 0/1 label patch with k loss pixels out of n
\* pixels that are numbers, loss_binary is 1 exactly when 2k >= n.
C15_TieBreak ==
    HasRow =>
        /\ BuiltRow.loss_binary \in {0, 1}
        /\ BuiltRow.loss_binary = 1 <=> AtLeastHalf(BuiltRow.loss_fraction)
        /\ RowLab.layout = "label" =>
              (BuiltRow.loss_binary = 1
                 <=> 2 * Cardinality(LossPixels) >= Cardinality(ValidPixels))

\* C15 amended: the row's loss_binary is 1 exactly when loss_fraction >= 0.5
\* and 0 otherwise; for a 0/1 label patch with k loss pixels out of n >= 1
\* pixels that are numbers, loss_fraction is k/n and loss_binary is 1 exactly
\* when 2k >= n; with no pixel that is a number, loss_fraction is
\* not-a-number and loss_binary is 0.
C15_Binarization ==
    HasRow =>
        /\ BuiltRow.loss_binary \in {0, 1}
        /\ BuiltRow.loss_binary = 1 <=> AtLeastHalf(BuiltRow.loss_fraction)
        /\ RowLab.layout = "label" =>
              LET n == Cardinality(ValidPixels)
                  k == Cardinality(LossPixels)
              IN  IF n >= 1
                  THEN /\ ~BuiltRow.loss_fraction.nan
                       /\ BuiltRow.loss_fraction.num * n = k * BuiltRow.loss_fraction.den
                       /\ BuiltRow.loss_binary = 1 <=> 2 * k >= n
                  ELSE /\ BuiltRow.loss_fraction.nan
                       /\ BuiltRow.loss_binary = 0

C15_Witness ==
    /\ HasRow
    /\ build.status = "written"
    /\ RowLab.layout = "label"
    /\ LabelArray.shape = <<2, 2>>
    /\ Cardinality(ValidPixels) = 2
    /\ Cardinality(LossPixels) = 1
    /\ BuiltRow.loss_binary = 1

====
